---- MODULE Spec2Model ----
(***************************************************************************)
(* A model of aiapiper's PipeFix.fetch: the pooled downloader of           *)
(* src/aiapiper/tools.py (validation, one catalog request, a               *)
(* ThreadPoolExecutor of _download_file tasks, the as_completed loop that  *)
(* tallies the results) and the sequential fetch of src/aiapiper/core.py   *)
(* (the same validation and catalog request, then one _download_file after *)
(* another in the calling thread).  An instance is of one class or of the  *)
(* other.                                                                  *)
(*                                                                         *)
(* Text is modelled as tuples of one-character strings, so that the        *)
(* regular expression and the string operations of _download_file are      *)
(* computed, not assumed.  The remote servers and the disk are the         *)
(* environment: every response and every I/O error the code can observe    *)
(* is a nondeterministic choice of the action that observes it.            *)
(***************************************************************************)
EXTENDS Integers, Sequences, FiniteSets, TLC

\* ------------------------------------------------------------------ bounds
\* The catalog lists at most MaxRecords records over the calls made on the instance.
MaxRecords == 3
\* PipeFix(max_workers = n) is constructed with n in 1..MaxPool.
MaxPool == 2

VARIABLES
    pc,               \* where the thread that called fetch is
    args_ok,          \* whether the current call was given arguments as documented
    answer,           \* what the catalog request of the current call met
    used,             \* records listed by the calls made so far
    impl,             \* which PipeFix was constructed: that of "tools" or that of "core"
    max_workers,      \* self.max_workers
    downloaded_count, \* self.downloaded_count
    progress_lock,    \* self.progress_lock: "free" or the thread that holds it
    outdir,           \* whether the output directory exists
    fs,               \* the files of the output directory: filename -> chunks
    fs0,              \* the files as the current call found them
    opens,            \* per file: open(filepath, "wb") calls by pool threads in the current call
    data,             \* data["data"], as the record["get"] of each record
    total_files,      \* total_files
    nsub,             \* how many tasks the comprehension has submitted
    status,           \* per task: where its _download_file is
    fname,            \* per task: the filename it resolved, kept when it returned True
    nread,            \* per task: chunks of the body read and written so far
    outcome,          \* per task: how _download_file ended
    collected,        \* per task: whether as_completed has yielded its future
    cur,              \* the task whose future the loop body is handling
    pbar,             \* the progress bar's n
    report,           \* the last line fetch printed about the run as a whole
    summary,          \* the numbers of the "Download complete!" line
    exc,              \* the exception that left fetch, "none" when it returned
    catalog_gets,     \* GETs of base_url made by the current call
    download_gets     \* GETs of a file URL made by the current call

vars == <<pc, args_ok, answer, used, impl, max_workers, downloaded_count, progress_lock, outdir, fs, fs0,
          opens, data, total_files, nsub, status, fname, nread, outcome,
          collected, cur, pbar, report, summary, exc, catalog_gets, download_gets>>

taskvars == <<status, fname, nread, outcome>>
mainvars == <<pc, args_ok, answer, used, impl, max_workers, downloaded_count, progress_lock, outdir, fs0,
              data, total_files, nsub, collected, cur, pbar, report, summary, exc,
              catalog_gets>>

Tasks == 1..MaxRecords

\* ------------------------------------------------------------------- text
IsPrefix(p, s) == Len(p) <= Len(s) /\ SubSeq(s, 1, Len(p)) = p

\* The literal the pattern starts with, and the characters it names.
FilenameEq == <<"f", "i", "l", "e", "n", "a", "m", "e", "=">>
DQ == "\""

\* [^"]+ , greedy: the longest run of characters that are not a double quote.
RECURSIVE TakeNonQuote(_)
TakeNonQuote(s) ==
    IF s = <<>> \/ Head(s) = DQ THEN <<>>
    ELSE <<Head(s)>> \o TakeNonQuote(Tail(s))

\* filename="?([^"]+)"? anchored at the start of s: group 1, or <<>> for no match.
\* The optional opening quote is taken when the match then succeeds; giving it
\* back leaves [^"]+ facing the quote, which never matches.
MatchHere(s) ==
    IF ~IsPrefix(FilenameEq, s) THEN <<>>
    ELSE LET r == SubSeq(s, Len(FilenameEq) + 1, Len(s))
         IN  IF r # <<>> /\ Head(r) = DQ THEN TakeNonQuote(Tail(r))
             ELSE TakeNonQuote(r)

\* re.search: the leftmost position at which the pattern matches.
RECURSIVE SearchFilename(_)
SearchFilename(s) ==
    IF s = <<>> THEN <<>>
    ELSE IF MatchHere(s) # <<>> THEN MatchHere(s)
    ELSE SearchFilename(Tail(s))

\* .replace(':', '-')
ReplaceColon(s) == [i \in 1..Len(s) |-> IF s[i] = ":" THEN "-" ELSE s[i]]

\* file_url.split('/')[-1]: what follows the last slash.
RECURSIVE SplitLast(_)
SplitLast(s) ==
    IF \A i \in 1..Len(s) : s[i] # "/" THEN s
    ELSE SplitLast(Tail(s))

\* The filename _download_file resolves from the Content-Disposition header
\* (<<>> when the response carries none) and the URL.
ResolveFilename(cd, url) ==
    IF SearchFilename(cd) # <<>> THEN ReplaceColon(SearchFilename(cd))
    ELSE SplitLast(url)

\* ------------------------------------------------------------ environment
\* The URLs a catalog record's "get" may hold, and their text.
URLs == {1}
UrlText(u) == <<"h", ":", "/", "/", "s", "/", "t", ":", "0">>

\* The Content-Disposition values a file server answers with.
HdrAbsent == <<>>
HdrQuoted == FilenameEq \o <<DQ, "t", ":", "0", DQ>>
HdrBare == <<"x", ";">> \o FilenameEq \o <<"t", ":", "0">>
Headers == {HdrAbsent, HdrQuoted, HdrBare}

\* The body a file server streams for a URL, one element per 64KB chunk.
Body(u) == <<"p">>

\* What a file left by an earlier program holds.
OldBytes == <<"old">>

Files == {ResolveFilename(h, UrlText(u)) : h \in Headers, u \in URLs}

\* The files an earlier program may have left in the output directory: the
\* download under the name the server gives it.
OldFiles == {ResolveFilename(HdrQuoted, UrlText(u)) : u \in URLs}

\* The catalog responses with "success" true: every list of at most n records.
Catalogs(n) == UNION {[1..k -> URLs] : k \in 0..n}

\* Date strings, by field: a letter stands for digits strptime accepts there.
DateFormat == <<"Y", "-", "m", "-", "d", "T", "H", ":", "M", ":", "S", ".", "f">>
Dates == {DateFormat,
          <<"Y", "-", "m", "-", "d", "T", "H", ":", "M", ":", "S">>,
          <<"Y", "-", "m", "-", "d", " ", "H", ":", "M", ":", "S", ".", "f">>}
\* datetime.strptime(s, "%Y-%m-%dT%H:%M:%S.%f") returns; otherwise it raises ValueError.
StrptimeOk(s) == s = DateFormat

\* cadence.unit
Units == {"min", "hour", "day", "s"}
\* The else branch that raises is missing: every unit is taken.
CadenceAny(unit) == TRUE

CadenceOk(unit) == unit = "min" \/ unit = "hour" \/ unit = "day"

\* The arguments the docstring of fetch asks for: both dates as
\* "YYYY-MM-DDTHH:MM:SS.000", the cadence in minutes, hours or days.
Documented(start_date, end_date, unit) ==
    /\ start_date = <<"Y", "-", "m", "-", "d", "T", "H", ":", "M", ":", "S", ".", "f">>
    /\ end_date = <<"Y", "-", "m", "-", "d", "T", "H", ":", "M", ":", "S", ".", "f">>
    /\ unit \in {"min", "hour", "day"}

\* ------------------------------------------------------------------ state
NoTasks == [i \in Tasks |-> "new"]

Init ==
    /\ pc = "idle"
    /\ args_ok = TRUE
    /\ answer = "none"
    /\ used = 0
    /\ impl \in {"tools", "core"}
    /\ max_workers \in (IF impl = "tools" THEN 1..MaxPool ELSE {1})
    /\ downloaded_count = 0
    /\ progress_lock = "free"
    /\ outdir \in BOOLEAN
    /\ fs \in {[f \in S |-> OldBytes] : S \in IF outdir THEN SUBSET OldFiles ELSE {{}}}
    /\ fs0 = fs
    /\ opens = [f \in Files |-> 0]
    /\ data = <<>>
    /\ total_files = 0
    /\ nsub = 0
    /\ status = NoTasks
    /\ fname = [i \in Tasks |-> <<>>]
    /\ nread = [i \in Tasks |-> 0]
    /\ outcome = [i \in Tasks |-> "none"]
    /\ collected = [i \in Tasks |-> FALSE]
    /\ cur = 0
    /\ pbar = 0
    /\ report = "none"
    /\ summary = <<0, 0>>
    /\ exc = "none"
    /\ catalog_gets = 0
    /\ download_gets = 0

\* -------------------------------------------------- fetch: the calling thread
\* A call may start when no call is running on the instance.
CanCall == pc \in {"idle", "returned", "raised"}

\* What a new call starts from: the locals and futures of the call before it are
\* gone, the instance's fields and the disk stay.
BeginCall ==
    /\ answer' = "none"
    /\ fs0' = fs
    /\ opens' = [f \in Files |-> 0]
    /\ data' = <<>>
    /\ total_files' = 0
    /\ nsub' = 0
    /\ status' = NoTasks
    /\ fname' = [i \in Tasks |-> <<>>]
    /\ nread' = [i \in Tasks |-> 0]
    /\ outcome' = [i \in Tasks |-> "none"]
    /\ collected' = [i \in Tasks |-> FALSE]
    /\ cur' = 0
    /\ pbar' = 0
    /\ report' = "none"
    /\ summary' = <<0, 0>>
    /\ catalog_gets' = 0
    /\ download_gets' = 0
    /\ UNCHANGED <<used, impl, max_workers, downloaded_count, progress_lock, fs>>

\* The first strptime that fails raises ValueError out of fetch.
FetchBadDate(start_date, end_date, unit) ==
    /\ CanCall
    /\ impl = "tools"
    /\ ~(StrptimeOk(start_date) /\ StrptimeOk(end_date))
    /\ BeginCall
    /\ args_ok' = Documented(start_date, end_date, unit)
    /\ pc' = "raised"
    /\ exc' = "ValueError"
    /\ UNCHANGED outdir

\* The dates parse and the unit is none of u.min, u.hour, u.day: ValueError.
FetchBadCadence(start_date, end_date, unit) ==
    /\ CanCall
    /\ impl = "tools"
    /\ StrptimeOk(start_date) /\ StrptimeOk(end_date)
    /\ ~CadenceOk(unit)
    /\ BeginCall
    /\ args_ok' = Documented(start_date, end_date, unit)
    /\ pc' = "raised"
    /\ exc' = "ValueError"
    /\ UNCHANGED outdir

\* Validation passes: os.makedirs(output_dir, exist_ok=True), then the catalog request.
FetchValid(start_date, end_date, unit) ==
    /\ CanCall
    /\ impl = "tools"
    /\ StrptimeOk(start_date) /\ StrptimeOk(end_date)
    /\ CadenceOk(unit)
    /\ BeginCall
    /\ args_ok' = Documented(start_date, end_date, unit)
    /\ outdir' = TRUE
    /\ pc' = "catalog"
    /\ exc' = "none"

\* What every way out of the catalog request without a download leaves alone.
NoDownload ==
    UNCHANGED <<args_ok, used, impl, max_workers, downloaded_count, progress_lock, outdir, fs, fs0,
                opens, data, total_files, nsub, taskvars, collected, cur, pbar,
                summary, download_gets>>

\* session.get raises (a timeout, a connection error): except RequestException
\* prints, and fetch returns None.
CatalogNetworkError ==
    /\ pc = "catalog"
    /\ answer' = "network_error"
    /\ catalog_gets' = catalog_gets + 1
    /\ report' = "request_error"
    /\ pc' = "returned"
    /\ exc' = "none"
    /\ NoDownload

\* The try has no handler for it: HTTPError leaves fetch.
CatalogHttpErrorRaises ==
    /\ pc = "catalog"
    /\ answer' = "http_error"
    /\ catalog_gets' = catalog_gets + 1
    /\ report' = "none"
    /\ pc' = "raised"
    /\ exc' = "HTTPError"
    /\ NoDownload

\* raise_for_status raises HTTPError, a RequestException: the same handler.
CatalogHttpError ==
    /\ pc = "catalog"
    /\ answer' = "http_error"
    /\ catalog_gets' = catalog_gets + 1
    /\ report' = "request_error"
    /\ pc' = "returned"
    /\ exc' = "none"
    /\ NoDownload

\* response.json() raises.  requests' JSONDecodeError is a RequestException and a
\* json.JSONDecodeError (requests >= 2.27), so the first handler takes it; an
\* older requests raises json.JSONDecodeError alone and the second one does.
CatalogInvalidJson ==
    /\ pc = "catalog"
    /\ answer' = "invalid_json"
    /\ catalog_gets' = catalog_gets + 1
    /\ report' \in {"request_error", "invalid_json"}
    /\ pc' = "returned"
    /\ exc' = "none"
    /\ NoDownload

\* The return after the print is missing: fetch goes on to the records.
CatalogNotSuccessfulGoesOn ==
    /\ pc = "catalog"
    /\ answer' = "not_successful"
    /\ catalog_gets' = catalog_gets + 1
    /\ report' = "not_successful"
    /\ pc' = "submit"
    /\ exc' = "none"
    /\ NoDownload

\* not data.get("success"): print and return.
CatalogNotSuccessful ==
    /\ pc = "catalog"
    /\ answer' = "not_successful"
    /\ catalog_gets' = catalog_gets + 1
    /\ report' = "not_successful"
    /\ pc' = "returned"
    /\ exc' = "none"
    /\ NoDownload

\* "success" is truthy and the body has no "data": data["data"] raises KeyError,
\* which neither handler takes.
CatalogMissingData ==
    /\ pc = "catalog"
    /\ answer' = "missing_data"
    /\ catalog_gets' = catalog_gets + 1
    /\ report' = "none"
    /\ pc' = "raised"
    /\ exc' = "KeyError"
    /\ NoDownload

\* The reset is missing: the counter goes on from the call before.
CatalogOkNoReset(records) ==
    /\ pc = "catalog"
    /\ answer' = "ok"
    /\ catalog_gets' = catalog_gets + 1
    /\ data' = records
    /\ total_files' = Len(records)
    /\ used' = used + Len(records)
    /\ report' = "found"
    /\ pc' = "submit"
    /\ UNCHANGED <<args_ok, impl, max_workers, downloaded_count, progress_lock, outdir, fs,
                   fs0, opens, nsub, taskvars, collected, cur, pbar, summary, exc,
                   download_gets>>

\* The catalog lists records: count them, reset the counter, open the pool and the bar.
CatalogOk(records) ==
    /\ pc = "catalog"
    /\ answer' = "ok"
    /\ catalog_gets' = catalog_gets + 1
    /\ data' = records
    /\ total_files' = Len(records)
    /\ used' = used + Len(records)
    /\ downloaded_count' = 0
    /\ report' = "found"
    /\ pc' = "submit"
    /\ UNCHANGED <<args_ok, impl, max_workers, progress_lock, outdir, fs, fs0, opens,
                   nsub, taskvars, collected, cur, pbar, summary, exc,
                   download_gets>>

\* The comprehension: executor.submit(self._download_file, record["get"], output_dir)
\* for every record, in the order of the list.  A submitted task waits in the
\* executor's queue; then the as_completed loop starts.
Submit ==
    /\ pc = "submit"
    /\ nsub' = total_files
    /\ status' = [i \in Tasks |-> IF i <= total_files THEN "queued" ELSE status[i]]
    /\ pc' = "collect"
    /\ UNCHANGED <<args_ok, answer, used, impl, max_workers, downloaded_count, progress_lock,
                   outdir, fs, fs0, opens, data, total_files, fname, nread, outcome,
                   collected, cur, pbar, report, summary, exc, catalog_gets,
                   download_gets>>

\* The early return of the skip gives False: only a written file counts.
ResultWrittenOnly(i) == outcome[i] = "Success"

\* What _download_file returned.
Result(i) == outcome[i] \in {"Success", "Skipped"}

\* as_completed yields a future once it is done, each future once.
Yields(i) == i \in 1..total_files /\ status[i] = "done" /\ ~collected[i]

\* The with statement is missing: the counter is updated without the lock.
AcquireNothing == UNCHANGED progress_lock

\* with self.progress_lock: the lock is taken by the thread running the loop.
Acquire == progress_lock = "free" /\ progress_lock' = "main"

\* future.result() is True: enter the with block.
TakeTrue(i) ==
    /\ pc = "collect"
    /\ Yields(i)
    /\ Result(i)
    /\ Acquire
    /\ cur' = i
    /\ pc' = "locked"
    /\ UNCHANGED <<args_ok, answer, used, impl, max_workers, downloaded_count, outdir, fs, fs0,
                   opens, data, total_files, nsub, taskvars, collected, pbar, report,
                   summary, exc, catalog_gets, download_gets>>

\* self.downloaded_count += 1, and the with block is left.
Increment ==
    /\ pc = "locked"
    /\ downloaded_count' = downloaded_count + 1
    /\ progress_lock' = "free"
    /\ pc' = "counted"
    /\ UNCHANGED <<args_ok, answer, used, impl, max_workers, outdir, fs, fs0, opens, data,
                   total_files, nsub, taskvars, collected, cur, pbar, report, summary,
                   exc, catalog_gets, download_gets>>

\* The update of the bar is missing after a counted success.
UpdateSkipped ==
    /\ pc = "counted"
    /\ collected' = [collected EXCEPT ![cur] = TRUE]
    /\ cur' = 0
    /\ pc' = "collect"
    /\ UNCHANGED <<args_ok, answer, used, impl, max_workers, downloaded_count, progress_lock,
                   outdir, fs, fs0, opens, data, total_files, nsub, taskvars, pbar,
                   report, summary, exc, catalog_gets, download_gets>>

\* pbar.update(1) after the with block: the iteration for this future is over.
Update ==
    /\ pc = "counted"
    /\ pbar' = pbar + 1
    /\ collected' = [collected EXCEPT ![cur] = TRUE]
    /\ cur' = 0
    /\ pc' = "collect"
    /\ UNCHANGED <<args_ok, answer, used, impl, max_workers, downloaded_count, progress_lock,
                   outdir, fs, fs0, opens, data, total_files, nsub, taskvars, report,
                   summary, exc, catalog_gets, download_gets>>

\* A failed descriptor is taken without updating the bar.
TakeFalseNoUpdate(i) ==
    /\ pc = "collect"
    /\ Yields(i)
    /\ ~Result(i)
    /\ collected' = [collected EXCEPT ![i] = TRUE]
    /\ UNCHANGED <<pc, args_ok, answer, used, impl, max_workers, downloaded_count, progress_lock,
                   outdir, fs, fs0, opens, data, total_files, nsub, taskvars, cur, pbar,
                   report, summary, exc, catalog_gets, download_gets>>

\* future.result() is False: pbar.update(1) alone.
TakeFalse(i) ==
    /\ pc = "collect"
    /\ Yields(i)
    /\ ~Result(i)
    /\ pbar' = pbar + 1
    /\ collected' = [collected EXCEPT ![i] = TRUE]
    /\ UNCHANGED <<pc, args_ok, answer, used, impl, max_workers, downloaded_count, progress_lock,
                   outdir, fs, fs0, opens, data, total_files, nsub, taskvars, cur,
                   report, summary, exc, catalog_gets, download_gets>>

\* as_completed has yielded every future it was given.
LoopExhausted == \A i \in 1..total_files : collected[i]

\* ThreadPoolExecutor.__exit__ is shutdown(wait=True): it returns once no work
\* item is queued or running.
PoolDrained == \A i \in 1..nsub : status[i] = "done"

\* The loop ends, the progress bar closes, the executor shuts down, and the
\* summary line is printed.
Finish ==
    /\ pc = "collect"
    /\ LoopExhausted
    /\ PoolDrained
    /\ summary' = <<downloaded_count, total_files>>
    /\ report' = "complete"
    /\ pc' = "returned"
    /\ exc' = "none"
    /\ UNCHANGED <<args_ok, answer, used, impl, max_workers, downloaded_count, progress_lock,
                   outdir, fs, fs0, opens, data, total_files, nsub, taskvars,
                   collected, cur, pbar, catalog_gets, download_gets>>

\* ------------------------------------------- _download_file: a pool thread
\* The tasks a pool thread is running.
InFlight == {i \in Tasks : status[i] \in {"get", "checked", "writing"}}

\* A thread per task: nothing bounds the pool.
ThreadFreeAlways == TRUE

\* The bound is off by one: a pool of one thread never runs anything.
ThreadFreeStarved == Cardinality(InFlight) < max_workers - 1

\* A pool thread is free to take a work item: the executor never runs more
\* than max_workers threads.
ThreadFree == Cardinality(InFlight) < max_workers

\* The work queue is first in, first out.
NextQueued(i) == status[i] = "queued" /\ \A j \in 1..(i - 1) : status[j] # "queued"

\* The GET is issued again after the first answer.
StartTwice(i) ==
    /\ NextQueued(i)
    /\ ThreadFree
    /\ status' = [status EXCEPT ![i] = "get"]
    /\ download_gets' = download_gets + 2
    /\ UNCHANGED <<mainvars, fs, opens, fname, nread, outcome>>

\* A pool thread takes the task and issues session.get(file_url, stream=True).
Start(i) ==
    /\ NextQueued(i)
    /\ ThreadFree
    /\ status' = [status EXCEPT ![i] = "get"]
    /\ download_gets' = download_gets + 1
    /\ UNCHANGED <<mainvars, fs, opens, fname, nread, outcome>>

\* _download_file returns True: the future is done.
ReturnTrue(i, how) ==
    /\ status' = [status EXCEPT ![i] = "done"]
    /\ outcome' = [outcome EXCEPT ![i] = how]
    /\ nread' = [nread EXCEPT ![i] = 0]
    /\ UNCHANGED fname

\* The failure of one task cancels the work items still queued.
ReturnFalseAborts(i) ==
    /\ status' = [j \in Tasks |-> IF j = i \/ status[j] = "queued" THEN "done" ELSE status[j]]
    /\ outcome' = [j \in Tasks |-> IF j = i \/ status[j] = "queued" THEN "Failed" ELSE outcome[j]]
    /\ nread' = [nread EXCEPT ![i] = 0]
    /\ fname' = [fname EXCEPT ![i] = <<>>]

\* An except clause of _download_file prints and returns False: the future is done.
ReturnFalse(i) ==
    /\ status' = [status EXCEPT ![i] = "done"]
    /\ outcome' = [outcome EXCEPT ![i] = "Failed"]
    /\ nread' = [nread EXCEPT ![i] = 0]
    /\ fname' = [fname EXCEPT ![i] = <<>>]

\* session.get raises requests.Timeout: except requests.Timeout.
GetTimeout(i) ==
    /\ status[i] = "get"
    /\ ReturnFalse(i)
    /\ UNCHANGED <<mainvars, fs, opens, download_gets>>

\* session.get raises another RequestException (no connection): the second clause.
GetConnectionError(i) ==
    /\ status[i] = "get"
    /\ ReturnFalse(i)
    /\ UNCHANGED <<mainvars, fs, opens, download_gets>>

\* raise_for_status raises HTTPError, a RequestException: the second clause.
GetHttpError(i) ==
    /\ status[i] = "get"
    /\ ReturnFalse(i)
    /\ UNCHANGED <<mainvars, fs, opens, download_gets>>

\* The check is missing, as in the sequential fetch: no file is ever found.
ExistsNever(f) == FALSE

\* os.path.exists(filepath)
Exists(f) == f \in DOMAIN fs

\* The response is a success and, the filename resolved from it and joined to
\* output_dir, the file is there: return True without reading the body.
SkipExisting(i, cd) ==
    /\ status[i] = "get"
    /\ Exists(ResolveFilename(cd, UrlText(data[i])))
    /\ fname' = [fname EXCEPT ![i] = ResolveFilename(cd, UrlText(data[i]))]
    /\ status' = [status EXCEPT ![i] = "done"]
    /\ outcome' = [outcome EXCEPT ![i] = "Skipped"]
    /\ UNCHANGED <<mainvars, fs, opens, nread, download_gets>>

\* The response is a success and the file is not there: go on to open it.
CheckAbsent(i, cd) ==
    /\ status[i] = "get"
    /\ ~Exists(ResolveFilename(cd, UrlText(data[i])))
    /\ fname' = [fname EXCEPT ![i] = ResolveFilename(cd, UrlText(data[i]))]
    /\ status' = [status EXCEPT ![i] = "checked"]
    /\ UNCHANGED <<mainvars, fs, opens, nread, outcome, download_gets>>

\* open(filepath, "wb"): the file is created, or truncated when it is there by now.
OpenFile(i) ==
    /\ status[i] = "checked"
    /\ fs' = [f \in DOMAIN fs \cup {fname[i]} |-> IF f = fname[i] THEN <<>> ELSE fs[f]]
    /\ opens' = [opens EXCEPT ![fname[i]] = @ + 1]
    /\ status' = [status EXCEPT ![i] = "writing"]
    /\ UNCHANGED <<mainvars, fname, nread, outcome, download_gets>>

\* open raises OSError: except Exception.
OpenFails(i) ==
    /\ status[i] = "checked"
    /\ ReturnFalse(i)
    /\ UNCHANGED <<mainvars, fs, opens, download_gets>>

\* f.write at the file object's own position: a gap left by another writer's
\* truncation reads as zeros.
WriteAt(bytes, pos, chunk) ==
    [k \in 1..(IF Len(bytes) > pos THEN Len(bytes) ELSE pos) |->
        IF k = pos THEN chunk ELSE IF k <= Len(bytes) THEN bytes[k] ELSE "zero"]

\* The next chunk of iter_content is written; after the last one the iterator
\* is exhausted, the file is closed and _download_file returns True.
WriteChunk(i) ==
    /\ status[i] = "writing"
    /\ nread[i] < Len(Body(data[i]))
    /\ fs' = [fs EXCEPT ![fname[i]] = WriteAt(@, nread[i] + 1, Body(data[i])[nread[i] + 1])]
    /\ IF nread[i] + 1 = Len(Body(data[i]))
       THEN ReturnTrue(i, "Success")
       ELSE /\ nread' = [nread EXCEPT ![i] = @ + 1]
            /\ UNCHANGED <<status, fname, outcome>>
    /\ UNCHANGED <<mainvars, opens, download_gets>>

\* iter_content raises (a read timeout, a broken connection: RequestException):
\* the with block closes the file as it is; the second clause.
StreamFails(i) ==
    /\ status[i] = "writing"
    /\ ReturnFalse(i)
    /\ UNCHANGED <<mainvars, fs, opens, download_gets>>

\* f.write raises OSError (a full disk): except Exception.
WriteFails(i) ==
    /\ status[i] = "writing"
    /\ ReturnFalse(i)
    /\ UNCHANGED <<mainvars, fs, opens, download_gets>>

\* ------------------------------------------ core.py: the sequential fetch
\* The first strptime that fails raises ValueError out of fetch.
CoreFetchBadDate(start_date, end_date, unit) ==
    /\ CanCall
    /\ impl = "core"
    /\ ~(StrptimeOk(start_date) /\ StrptimeOk(end_date))
    /\ BeginCall
    /\ args_ok' = Documented(start_date, end_date, unit)
    /\ pc' = "raised"
    /\ exc' = "ValueError"
    /\ UNCHANGED outdir

\* os.makedirs comes first: the directory is there when the unit is refused.
CoreFetchBadCadenceMakesDir(start_date, end_date, unit) ==
    /\ CanCall
    /\ impl = "core"
    /\ StrptimeOk(start_date) /\ StrptimeOk(end_date)
    /\ ~CadenceOk(unit)
    /\ BeginCall
    /\ args_ok' = Documented(start_date, end_date, unit)
    /\ pc' = "raised"
    /\ exc' = "ValueError"
    /\ outdir' = TRUE

\* The dates parse and the unit is none of u.min, u.hour, u.day: ValueError.
CoreFetchBadCadence(start_date, end_date, unit) ==
    /\ CanCall
    /\ impl = "core"
    /\ StrptimeOk(start_date) /\ StrptimeOk(end_date)
    /\ ~CadenceOk(unit)
    /\ BeginCall
    /\ args_ok' = Documented(start_date, end_date, unit)
    /\ pc' = "raised"
    /\ exc' = "ValueError"
    /\ UNCHANGED outdir

\* Validation passes: os.makedirs(output_dir, exist_ok=True), then the catalog request.
CoreFetchValid(start_date, end_date, unit) ==
    /\ CanCall
    /\ impl = "core"
    /\ StrptimeOk(start_date) /\ StrptimeOk(end_date)
    /\ CadenceOk(unit)
    /\ BeginCall
    /\ args_ok' = Documented(start_date, end_date, unit)
    /\ outdir' = TRUE
    /\ pc' = "core_catalog"
    /\ exc' = "none"

\* requests.get raises, raise_for_status raises HTTPError, or response.json()
\* raises: one of the two handlers prints, and fetch returns None.
CoreCatalogError(kind) ==
    /\ pc = "core_catalog"
    /\ answer' = kind
    /\ catalog_gets' = catalog_gets + 1
    /\ report' \in (IF kind = "invalid_json" THEN {"request_error", "invalid_json"}
                    ELSE {"request_error"})
    /\ pc' = "returned"
    /\ exc' = "none"
    /\ NoDownload

\* not data.get("success"): print and return.
CoreCatalogNotSuccessful ==
    /\ pc = "core_catalog"
    /\ answer' = "not_successful"
    /\ catalog_gets' = catalog_gets + 1
    /\ report' = "not_successful"
    /\ pc' = "returned"
    /\ exc' = "none"
    /\ NoDownload

\* "success" is truthy and the body has no "data": KeyError leaves fetch.
CoreCatalogMissingData ==
    /\ pc = "core_catalog"
    /\ answer' = "missing_data"
    /\ catalog_gets' = catalog_gets + 1
    /\ report' = "none"
    /\ pc' = "raised"
    /\ exc' = "KeyError"
    /\ NoDownload

\* The catalog lists records: count them and enter the loop.
CoreCatalogOk(records) ==
    /\ pc = "core_catalog"
    /\ answer' = "ok"
    /\ catalog_gets' = catalog_gets + 1
    /\ data' = records
    /\ total_files' = Len(records)
    /\ used' = used + Len(records)
    /\ report' = "found"
    /\ pc' = "core_loop"
    /\ UNCHANGED <<args_ok, impl, max_workers, downloaded_count, progress_lock, outdir,
                   fs, fs0, opens, nsub, taskvars, collected, cur, pbar, summary, exc,
                   download_gets>>

\* What a step of the loop body leaves alone.
CoreFrame ==
    UNCHANGED <<args_ok, answer, used, impl, max_workers, downloaded_count, progress_lock,
                outdir, fs0, opens, data, total_files, nsub, collected, cur, pbar,
                report, summary, catalog_gets>>

\* The next iteration: self._download_file(record["get"], output_dir) issues
\* requests.get(file_url, stream=True), without a timeout.
CoreGet(i) ==
    /\ pc = "core_loop"
    /\ i \in 1..total_files
    /\ status[i] = "new"
    /\ \A j \in 1..(i - 1) : status[j] = "done"
    /\ status' = [status EXCEPT ![i] = "core_get"]
    /\ download_gets' = download_gets + 1
    /\ UNCHANGED <<pc, exc, fs, fname, nread, outcome>>
    /\ CoreFrame

\* _download_file returns, after its except clause printed or after the file
\* was written, and the loop goes on.
CoreReturn(i, how) ==
    /\ status' = [status EXCEPT ![i] = "done"]
    /\ outcome' = [outcome EXCEPT ![i] = how]
    /\ nread' = [nread EXCEPT ![i] = 0]
    /\ UNCHANGED <<pc, exc>>

\* An exception that is no RequestException leaves _download_file, the loop and
\* fetch, whose handlers are for RequestException and JSONDecodeError.
CoreRaise(i, e) ==
    /\ status' = [status EXCEPT ![i] = "done"]
    /\ outcome' = [outcome EXCEPT ![i] = "Raised"]
    /\ nread' = [nread EXCEPT ![i] = 0]
    /\ pc' = "raised"
    /\ exc' = e

\* requests.get raises (no connection) or raise_for_status raises HTTPError:
\* except requests.RequestException prints.
CoreGetFails(i) ==
    /\ status[i] = "core_get"
    /\ CoreReturn(i, "Failed")
    /\ UNCHANGED <<fs, fname, download_gets>>
    /\ CoreFrame

\* The response is a success: the filename is resolved and open(filepath, "wb")
\* creates the file, or truncates the one that is there.
CoreOpenFile(i, cd) ==
    /\ status[i] = "core_get"
    /\ fname' = [fname EXCEPT ![i] = ResolveFilename(cd, UrlText(data[i]))]
    /\ fs' = [f \in DOMAIN fs \cup {ResolveFilename(cd, UrlText(data[i]))} |->
                IF f = ResolveFilename(cd, UrlText(data[i])) THEN <<>> ELSE fs[f]]
    /\ status' = [status EXCEPT ![i] = "core_writing"]
    /\ UNCHANGED <<pc, exc, nread, outcome, download_gets>>
    /\ CoreFrame

\* open raises OSError, which no clause of _download_file takes.
CoreOpenFails(i) ==
    /\ status[i] = "core_get"
    /\ CoreRaise(i, "OSError")
    /\ UNCHANGED <<fs, fname, download_gets>>
    /\ CoreFrame

\* The next chunk of iter_content is written; after the last one the file is
\* closed and _download_file returns.
CoreWriteChunk(i) ==
    /\ status[i] = "core_writing"
    /\ nread[i] < Len(Body(data[i]))
    /\ fs' = [fs EXCEPT ![fname[i]] = WriteAt(@, nread[i] + 1, Body(data[i])[nread[i] + 1])]
    /\ IF nread[i] + 1 = Len(Body(data[i]))
       THEN CoreReturn(i, "Success")
       ELSE /\ nread' = [nread EXCEPT ![i] = @ + 1]
            /\ UNCHANGED <<pc, exc, status, outcome>>
    /\ UNCHANGED <<fname, download_gets>>
    /\ CoreFrame

\* iter_content raises a RequestException (a broken connection): the with block
\* closes the file as it is, and the except clause prints.
CoreStreamFails(i) ==
    /\ status[i] = "core_writing"
    /\ CoreReturn(i, "Failed")
    /\ UNCHANGED <<fs, fname, download_gets>>
    /\ CoreFrame

\* f.write raises OSError (a full disk), which no clause takes.
CoreWriteFails(i) ==
    /\ status[i] = "core_writing"
    /\ CoreRaise(i, "OSError")
    /\ UNCHANGED <<fs, fname, download_gets>>
    /\ CoreFrame

\* The loop is over: fetch returns None, with no summary line.
CoreLoopEnds ==
    /\ pc = "core_loop"
    /\ \A i \in 1..total_files : status[i] = "done"
    /\ pc' = "returned"
    /\ exc' = "none"
    /\ UNCHANGED <<args_ok, answer, used, impl, max_workers, downloaded_count, progress_lock,
                   outdir, fs, fs0, opens, data, total_files, nsub, taskvars, collected,
                   cur, pbar, report, summary, catalog_gets, download_gets>>

\* ---------------------------------------------------------- specification
\* fetch is called.
Call ==
    \/ \E sd \in Dates, ed \in Dates, unit \in Units : FetchBadDate(sd, ed, unit)
    \/ \E sd \in Dates, ed \in Dates, unit \in Units : FetchBadCadence(sd, ed, unit)
    \/ \E sd \in Dates, ed \in Dates, unit \in Units : FetchValid(sd, ed, unit)
    \/ \E sd \in Dates, ed \in Dates, unit \in Units : CoreFetchBadDate(sd, ed, unit)
    \/ \E sd \in Dates, ed \in Dates, unit \in Units : CoreFetchBadCadence(sd, ed, unit)
    \/ \E sd \in Dates, ed \in Dates, unit \in Units : CoreFetchValid(sd, ed, unit)

\* The calling thread goes on with the call it is in.
Main ==
    \/ CatalogNetworkError
    \/ CatalogHttpError
    \/ CatalogInvalidJson
    \/ CatalogNotSuccessful
    \/ CatalogMissingData
    \/ \E records \in Catalogs(MaxRecords - used) : CatalogOk(records)
    \/ Submit
    \/ \E i \in Tasks : TakeTrue(i)
    \/ Increment
    \/ Update
    \/ \E i \in Tasks : TakeFalse(i)
    \/ Finish

Worker(i) ==
    \/ Start(i)
    \/ GetTimeout(i)
    \/ GetConnectionError(i)
    \/ GetHttpError(i)
    \/ \E cd \in Headers : SkipExisting(i, cd)
    \/ \E cd \in Headers : CheckAbsent(i, cd)
    \/ OpenFile(i)
    \/ OpenFails(i)
    \/ WriteChunk(i)
    \/ StreamFails(i)
    \/ WriteFails(i)

\* The sequential fetch goes on with the call it is in.
Core ==
    \/ \E kind \in {"network_error", "http_error", "invalid_json"} : CoreCatalogError(kind)
    \/ CoreCatalogNotSuccessful
    \/ CoreCatalogMissingData
    \/ \E records \in Catalogs(MaxRecords - used) : CoreCatalogOk(records)
    \/ \E i \in Tasks : CoreGet(i)
    \/ \E i \in Tasks : CoreGetFails(i)
    \/ \E i \in Tasks, cd \in Headers : CoreOpenFile(i, cd)
    \/ \E i \in Tasks : CoreOpenFails(i)
    \/ \E i \in Tasks : CoreWriteChunk(i)
    \/ \E i \in Tasks : CoreStreamFails(i)
    \/ \E i \in Tasks : CoreWriteFails(i)
    \/ CoreLoopEnds

Next == Call \/ Main \/ (\E i \in Tasks : Worker(i)) \/ Core

Spec == Init /\ [][Next]_vars

\* The threads are scheduled and every network operation ends (each has a
\* timeout): while the call can take a step, some step of it is taken.  Nothing
\* obliges the user to call fetch again, and the requests.get of the sequential
\* fetch is given no timeout, so nothing is assumed of it.
FairSpec == Spec /\ WF_vars(Main \/ \E i \in Tasks : Worker(i))

\* ------------------------------------------------------------------ claims
\* The descriptors of the current call by how their worker ended.
Succeeded == Cardinality({i \in 1..total_files : outcome[i] \in {"Success", "Skipped"}})
Failed == Cardinality({i \in 1..total_files : outcome[i] = "Failed"})
Terminal(i) == status[i] = "done" /\ outcome[i] \in {"Success", "Skipped", "Failed"}
Downloading == pc \in {"catalog", "submit", "collect", "locked", "counted"}

\* C1: when the download phase of the pooled fetch finishes, total is the number of
\* catalog records, the reported downloaded_count is the number of descriptors
\* whose worker ended in Success or Skipped, and succeeded + failed = total, under
\* every order in which the workers complete.
C1_TallyAddsUp ==
    report = "complete" =>
        /\ total_files = Len(data)
        /\ summary = <<downloaded_count, total_files>>
        /\ downloaded_count = Succeeded
        /\ Succeeded + Failed = total_files

\* Three descriptors: one already on disk, one that fails, one that is written;
\* the summary reads 2/3.
C1_Witness ==
    /\ report = "complete"
    /\ summary = <<2, 3>>
    /\ \E i, j, k \in 1..total_files :
          /\ outcome[i] = "Skipped" /\ fname[i] \in DOMAIN fs0
          /\ outcome[j] = "Failed"
          /\ outcome[k] = "Success"

\* C2: at no time are more than max_workers downloads in flight.
C2_PoolBound == Cardinality(InFlight) <= max_workers

\* More descriptors than threads: the pool is full and a task waits.
C2_Witness ==
    /\ total_files > max_workers
    /\ Cardinality(InFlight) = max_workers
    /\ \E i \in Tasks : status[i] = "queued"

\* C3: an error met while downloading one descriptor makes that descriptor
\* Failed and touches no other task nor the calling thread; no exception
\* leaves fetch once a task was submitted, and when the run is reported
\* complete every descriptor has its own terminal outcome.
C3_ErrorsConfined ==
    /\ [](nsub > 0 => exc = "none")
    /\ [](report = "complete" => pc = "returned" /\ \A i \in 1..total_files : Terminal(i))
    /\ [][\A i \in Tasks :
            (outcome[i] = "none" /\ outcome'[i] = "Failed") =>
                /\ status'[i] = "done"
                /\ pc' = pc /\ exc' = exc
                /\ \A j \in Tasks \ {i} : status'[j] = status[j] /\ outcome'[j] = outcome[j]]_vars

\* A run is complete with one descriptor failed and another one written.
C3_Witness ==
    /\ report = "complete"
    /\ \E i, j \in 1..total_files : outcome[i] = "Failed" /\ outcome[j] = "Success"

\* C4 as stated: a worker that finds its destination file skips it, which counts
\* as a success and reads no chunk of the body, and from then on to the end of
\* the run the bytes of that file are what the worker found.
C4_SkippedFileNeverChanges ==
    [][\A i \in Tasks :
          /\ (outcome[i] = "none" /\ outcome'[i] = "Skipped") => nread'[i] = 0
          /\ outcome'[i] = "Skipped" =>
                /\ fname'[i] \in DOMAIN fs
                /\ fs'[fname'[i]] = fs[fname'[i]]]_vars

\* C4 as amended: a worker goes on to open its destination only when the file is
\* not there; one that finds it skips, which counts as a success, reads no chunk
\* and writes nothing itself; and a skipped file that was there before the run
\* started has the bytes it had then.
C4_SkipLeavesOldFile ==
    /\ [](\A i \in Tasks :
            outcome[i] = "Skipped" =>
                /\ Result(i)
                /\ fname[i] \in DOMAIN fs
                /\ fname[i] \in DOMAIN fs0 => fs[fname[i]] = fs0[fname[i]])
    /\ [][\A i \in Tasks :
            /\ (status[i] = "get" /\ status'[i] = "checked") => fname'[i] \notin DOMAIN fs
            /\ (outcome[i] = "none" /\ outcome'[i] = "Skipped") =>
                  /\ fname'[i] \in DOMAIN fs
                  /\ nread'[i] = 0
                  /\ fs' = fs /\ opens' = opens]_vars

\* A run is complete that skipped, and counted, a file it found at its start.
C4_Witness ==
    /\ report = "complete"
    /\ \E i \in 1..total_files :
          outcome[i] = "Skipped" /\ fname[i] \in DOMAIN fs0 /\ collected[i]
    /\ downloaded_count >= 1

\* C5: during a run no path is opened for writing by more than one worker.
C5_OneWriterPerFile == \A f \in Files : opens[f] <= 1

\* C6: the summary is reported only when every submitted descriptor has reached
\* its terminal outcome and no worker is running or waiting, and a fetch whose
\* downloads each end comes to its own end.
C6_DrainsThenReports ==
    /\ [](report = "complete" =>
            /\ InFlight = {}
            /\ \A i \in 1..total_files : Terminal(i) /\ collected[i])
    /\ (Downloading ~> ~Downloading)

\* A run of several descriptors is reported complete.
C6_Witness == report = "complete" /\ total_files >= 2 /\ pc = "returned"

\* C7: a call whose cadence unit is not minute, hour or day, or one of whose
\* dates is not in the format, ends in ValueError with no HTTP request made.
C7_ValidationFirst ==
    ~args_ok => pc = "raised" /\ exc = "ValueError" /\ catalog_gets = 0 /\ download_gets = 0

\* Such a call was made, on an instance that was used before.
C7_Witness == ~args_ok /\ pc = "raised" /\ used > 0

\* C8: the thread that updates downloaded_count holds progress_lock, nobody else
\* holds it, and the counter is the number of True results taken so far: no
\* increment is lost, however many workers are running.
C8_CounterUnderLock ==
    /\ (pc = "locked") <=> (progress_lock = "main")
    /\ pc = "collect" =>
          downloaded_count =
              Cardinality({i \in 1..total_files :
                              collected[i] /\ outcome[i] \in {"Success", "Skipped"}})

\* The counter is being updated a second time while a worker is downloading.
C8_Witness == pc = "locked" /\ downloaded_count >= 1 /\ InFlight # {}

\* C9 as stated: a catalog answer with an error status, or one that is not JSON,
\* makes fetch fail with an exception, and no download is requested.
C9_CatalogErrorRaised ==
    answer \in {"http_error", "invalid_json"} =>
        pc = "raised" /\ exc # "none" /\ download_gets = 0

\* C9 as amended: fetch prints the error and returns without raising; no task is
\* submitted, no download is requested and no file is touched.
C9_CatalogErrorPrinted ==
    answer \in {"http_error", "invalid_json"} =>
        /\ pc = "returned" /\ exc = "none"
        /\ report \in {"request_error", "invalid_json"}
        /\ catalog_gets = 1 /\ download_gets = 0
        /\ nsub = 0 /\ status = NoTasks
        /\ fs = fs0

\* The catalog answered with an error status.
C9_Witness == answer = "http_error" /\ pc = "returned" /\ report = "request_error"

\* C10: a catalog answer without a truthy "success" is reported, fetch returns
\* without raising, no download is requested and no file is written.
C10_SoftFailure ==
    answer = "not_successful" =>
        /\ pc = "returned" /\ exc = "none"
        /\ report = "not_successful"
        /\ download_gets = 0
        /\ nsub = 0 /\ status = NoTasks
        /\ fs = fs0

\* The catalog answered so.
C10_Witness == answer = "not_successful" /\ pc = "returned"

\* The pooled run of the current call is past its catalog request and not yet over.
Pooling == pc \in {"submit", "collect", "locked", "counted"}

\* C11 as stated: at every point of a pooled run downloaded_count <= the progress
\* counter <= the number of catalog records, and succeeded + failed <= total.
C11_SucceededBelowCompleted ==
    Pooling =>
        /\ downloaded_count <= pbar
        /\ pbar <= total_files
        /\ total_files = Len(data)
        /\ downloaded_count + Failed <= total_files

\* C11 as amended: the progress counter never exceeds the number of catalog
\* records and succeeded + failed never exceeds it; downloaded_count is at most
\* the progress counter, except between the increment and the update of the bar
\* that follows it, when it is one more.
C11_CountersOrdered ==
    Pooling =>
        /\ pbar <= total_files
        /\ total_files = Len(data)
        /\ downloaded_count <= total_files
        /\ downloaded_count + Failed <= total_files
        /\ pc # "counted" => downloaded_count <= pbar
        /\ pc = "counted" => downloaded_count = pbar - Cardinality({i \in 1..total_files :
                                  collected[i] /\ ~Result(i)}) + 1

\* Midway: of three descriptors two are taken, one of them a success.
C11_Witness ==
    pc = "collect" /\ total_files = 3 /\ pbar = 2 /\ downloaded_count = 1

\* C12: within a call the progress counter never decreases; it is the number of
\* futures the loop has handled, each of them a descriptor with a terminal
\* outcome, whatever that outcome is; a step that advances it advances it by one
\* and changes no task's state or outcome; and it is the total at the summary.
C12_ProgressCounts ==
    /\ [](pbar = Cardinality({i \in Tasks : collected[i]}))
    /\ [](\A i \in Tasks : collected[i] => i <= total_files /\ Terminal(i))
    /\ [](report = "complete" => pbar = total_files)
    /\ [][~CanCall =>
            /\ pbar' \in {pbar, pbar + 1}
            /\ pbar' = pbar + 1 =>
                  /\ taskvars' = taskvars
                  /\ nsub' = nsub
                  /\ \E i \in 1..total_files :
                        /\ Terminal(i) /\ ~collected[i] /\ collected'[i]
                        /\ \A j \in Tasks \ {i} : collected'[j] = collected[j]]_vars

\* The bar is full after a run with a failed and a skipped descriptor.
C12_Witness ==
    /\ report = "complete"
    /\ pbar = total_files
    /\ \E i, j \in 1..total_files : outcome[i] = "Failed" /\ outcome[j] = "Skipped"

\* C13: every destination filename a worker resolves, from the header or from
\* the URL, contains no colon.
C13_NoColonInFilename ==
    \A i \in Tasks : \A k \in 1..Len(fname[i]) : fname[i][k] # ":"

\* The descriptors of the current call whose download was requested.
Requested == {i \in Tasks : status[i] \notin {"new", "queued"}}

\* C14: a call makes one catalog GET, none before its arguments are accepted
\* and no second one; it makes one download GET for each record whose task has
\* started, a task starts once, and when the run is complete every record of
\* the catalog response, repeated URLs included, has had its one GET.
C14_OneGetEach ==
    /\ [](catalog_gets = IF answer = "none" THEN 0 ELSE 1)
    /\ [](Requested \subseteq 1..Len(data) /\ download_gets = Cardinality(Requested))
    /\ [](report = "complete" => catalog_gets = 1 /\ Requested = 1..Len(data))
    /\ [][~CanCall =>
            /\ catalog_gets' >= catalog_gets
            /\ \A i \in Tasks :
                  /\ i \in Requested => i \in Requested'
                  /\ (i \notin Requested /\ i \in Requested') =>
                        /\ status'[i] \in {"get", "core_get"}
                        /\ download_gets' = download_gets + 1]_vars

\* A complete run over two records with the same URL: one catalog GET, two
\* download GETs.
C14_Witness ==
    /\ report = "complete"
    /\ Len(data) = 2 /\ data[1] = data[2]
    /\ catalog_gets = 1 /\ download_gets = 2

\* C15: after a run, a file is in the output directory only if it was there
\* before the run or a worker of the run ended in Success for it.
C15_NoFileFromFailure ==
    report = "complete" =>
        \A f \in DOMAIN fs :
            \/ f \in DOMAIN fs0
            \/ \E i \in 1..total_files : outcome[i] = "Success" /\ fname[i] = f

\* C16: in every call on the instance that reaches the download phase,
\* downloaded_count is 0 when the tasks are about to be submitted, during the
\* run it counts results of this call's own tasks only, and the summary gives
\* the number of this call's descriptors that ended in Success or Skipped.
C16_TallyPerCall ==
    /\ [](pc = "submit" => downloaded_count = 0 /\ nsub = 0 /\ Requested = {})
    /\ [](Pooling => downloaded_count <= Cardinality({i \in 1..Len(data) : Result(i)}))
    /\ [](report = "complete" =>
            /\ summary[1] = Cardinality({i \in 1..Len(data) : Result(i)})
            /\ summary[1] <= Len(data))
    /\ [][(pc = "catalog" /\ pc' = "submit") => downloaded_count' = 0]_vars

\* A later call on the instance reports 0 successes although a call before it
\* wrote a file.
C16_Witness ==
    /\ report = "complete"
    /\ used > total_files
    /\ \E f \in DOMAIN fs0 : fs0[f] = Body(1)
    /\ total_files >= 1
    /\ summary[1] = 0

\* C17: in the sequential fetch a record is requested only when the records
\* before it are done with, no exception leaves fetch once the catalog has
\* listed its records, and when fetch is over every record has been attempted
\* and has ended as written or as failed.
C17_SequentialConfined ==
    (impl = "core" /\ answer = "ok") =>
        /\ \A i \in Requested : \A j \in 1..(i - 1) : status[j] = "done"
        /\ pc # "raised" /\ exc = "none"
        /\ pc = "returned" =>
              \A i \in 1..Len(data) :
                  i \in Requested /\ status[i] = "done" /\ outcome[i] \in {"Success", "Failed"}

\* C18: a call that fails validation is over in ValueError with the output
\* directory as it was, created or not, and every file as it was; it has made
\* no request, and without the directory there is no file.
C18_FailedValidationNoEffect ==
    /\ [][(CanCall /\ (~args_ok' \/ exc' = "ValueError")) =>
            /\ pc' = "raised" /\ exc' = "ValueError"
            /\ outdir' = outdir
            /\ fs' = fs]_vars
    /\ [](exc = "ValueError" =>
            /\ pc = "raised"
            /\ fs = fs0
            /\ catalog_gets = 0 /\ download_gets = 0 /\ Requested = {})
    /\ [](~outdir => DOMAIN fs = {})

\* The first call of the pooled fetch was refused: no directory was made.
C18_Witness == impl = "tools" /\ pc = "raised" /\ exc = "ValueError" /\ ~outdir /\ used = 0

====
